---- MODULE Spec2Model ----
(***************************************************************************)
(* State-machine model of dash_app.py: the start-up sequence (load_data,   *)
(* create_app) and the callback update_scatter, which filters the loaded   *)
(* table by team, player and one numeric comparison, builds the hover     *)
(* list and hands the arguments of the plot to px.scatter.                 *)
(*                                                                         *)
(* Python values.  An optional value is a sequence of length at most one:  *)
(* None is << >> and a value v is <<v>>, so that None, "" and [] stay      *)
(* three different inputs.  A table (DataFrame) is a set of column names   *)
(* and a sequence of rows, each row carrying its index label and its      *)
(* cells.  px.scatter itself is outside the repository: the model stops    *)
(* at the arguments update_scatter passes to it.                           *)
(***************************************************************************)
EXTENDS Integers, Sequences, FiniteSets, TLC

VARIABLES exists, csv, pc, loads, df, app, err, args, fig, ref

vars == <<exists, csv, pc, loads, df, app, err, args, fig, ref>>

(* ----------------------------- bounds --------------------------------- *)

\* the longest CSV file (in rows) the model loads
MaxRows == 2

(* ------------------------- Python values ------------------------------ *)

None == << >>

Some(v) == <<v>>

\* truth value of an optional string: None and "" are falsy
Truthy(m) == m # None /\ m[1] # ""

\* truth value of an optional list: None and [] are falsy
TruthyList(m) == m # None /\ m[1] # << >>

\* "hover_cols or []"
OrEmpty(m) == IF TruthyList(m) THEN m[1] ELSE << >>

\* f"{value}" of an optional string
Fmt(m) == IF m = None THEN "None" ELSE m[1]

(* ----------------------------- tables --------------------------------- *)

CSV_PATH == "pitching_advanced_20IPmin.csv"

\* the working directory the process is started in
Cwd == "/srv/app/"

\* Path.resolve(): the absolute path
Resolve(path) == Cwd \o path

AllColumns == {"Name", "Team", "ERA"}

Names == {"A", "B"}

Teams == {"X", "Y"}

Nums == {0, 1}

Cell(c, n, t, e) == IF c = "Name" THEN n ELSE IF c = "Team" THEN t ELSE e

RecordsOver(C) == { [c \in C |-> Cell(c, n, t, e)] : n \in Names, t \in Teams, e \in Nums }

SeqsUpTo(S, n) == UNION { [1..k -> S] : k \in 0..n }

\* the contents of a CSV file: a header and up to MaxRows records
CsvFiles == UNION { { [columns |-> C, records |-> s] : s \in SeqsUpTo(RecordsOver(C), MaxRows) }
                    : C \in (SUBSET AllColumns) \ {{}} }

NoFile == [columns |-> {}, records |-> << >>]

NoTable == [columns |-> {}, rows |-> << >>]

\* pd.read_csv: the records of the file under a RangeIndex 0..n-1
read_csv(file) ==
    [columns |-> file.columns,
     rows    |-> [i \in 1..Len(file.records) |-> [idx |-> i - 1, cells |-> file.records[i]]]]

\* df[c]: the column c as a sequence of values (c is a column of t)
Series(t, c) == [i \in 1..Len(t.rows) |-> t.rows[i].cells[c]]

\* Series.isin(values): the boolean mask of membership
isin(series, values) ==
    [i \in 1..Len(series) |-> \E j \in 1..Len(values) : values[j] = series[i]]

RECURSIVE Take(_, _, _)
\* the rows of a sequence whose mask entry is TRUE, from position i on, in order
Take(rows, mask, i) ==
    IF i > Len(rows) THEN << >>
    ELSE IF mask[i] THEN <<rows[i]>> \o Take(rows, mask, i + 1)
    ELSE Take(rows, mask, i + 1)

\* t[mask] as a value: same columns, the rows where mask is TRUE, labels kept
Masked(t, mask) == [columns |-> t.columns, rows |-> Take(t.rows, mask, 1)]

\* In-place variant: the indexed object itself is cut down to the masked rows.
BoolIndexInPlace(store, r, mask) ==
    [store |-> [store EXCEPT ![r] = Masked(store[r], mask)], ref |-> r]

\* t[mask] on the object store: boolean indexing builds a new DataFrame object
\* and leaves the indexed object as it is
BoolIndex(store, r, mask) ==
    [store |-> Append(store, Masked(store[r], mask)), ref |-> Len(store) + 1]

(* ------------------------ update_scatter ------------------------------ *)

\* The frame of one call after the guard on x_col and y_col: the object
\* store holds the module-level df as object 1, filtered_df is not bound
\* yet (ref 1), no exception is pending and no column has been looked up.
Entry(t) == [store |-> <<t>>, ref |-> 1, exc |-> None, trace |-> << >>]

\* frame[k] on a frame without the column k: KeyError(k)
Raise(s, k) == [s EXCEPT !.exc = Some(k), !.trace = Append(@, k)]

\* filtered_df = <object b.ref>, after looking up column k
Rebind(s, k, b) == [s EXCEPT !.store = b.store, !.ref = b.ref, !.trace = Append(@, k)]

\* filtered_df = df[df["Team"].isin(selected_teams)] if selected_teams else df
team_stage(s, a) ==
    IF ~TruthyList(a.selected_teams) THEN s
    ELSE IF "Team" \notin s.store[1].columns THEN Raise(s, "Team")
    ELSE Rebind(s, "Team",
                BoolIndex(s.store, 1, isin(Series(s.store[1], "Team"), a.selected_teams[1])))

\* The player filter applied to df instead of filtered_df.
player_stage_from_df(s, a) ==
    IF s.exc # None \/ ~TruthyList(a.selected_players) THEN s
    ELSE IF "Name" \notin s.store[1].columns THEN Raise(s, "Name")
    ELSE Rebind(s, "Name",
                BoolIndex(s.store, 1, isin(Series(s.store[1], "Name"), a.selected_players[1])))

\* filtered_df = filtered_df[filtered_df["Name"].isin(selected_players)]
\*               if selected_players else filtered_df
player_stage(s, a) ==
    IF s.exc # None \/ ~TruthyList(a.selected_players) THEN s
    ELSE IF "Name" \notin s.store[s.ref].columns THEN Raise(s, "Name")
    ELSE Rebind(s, "Name",
                BoolIndex(s.store, s.ref,
                          isin(Series(s.store[s.ref], "Name"), a.selected_players[1])))

\* the operators of the if/elif chain
ParamOps == {">", ">=", "<", "<=", "="}

\* The chain with the bodies of ">" and ">=" exchanged.
CompareSwapped(op, v, w) ==
    CASE op = ">"  -> v >= w
      [] op = ">=" -> v > w
      [] op = "<"  -> v < w
      [] op = "<=" -> v <= w
      [] op = "="  -> v = w

\* one element of filtered_df[param_col] <op> param_value
Compare(op, v, w) ==
    CASE op = ">"  -> v > w
      [] op = ">=" -> v >= w
      [] op = "<"  -> v < w
      [] op = "<=" -> v <= w
      [] op = "="  -> v = w

\* filtered_df[param_col] <op> param_value: the element-wise mask
param_mask(series, op, value) ==
    [i \in 1..Len(series) |-> Compare(op, series[i], value)]

\* The guard written "if param_col and param_value:", which drops the value 0.
param_given_truthy(a) ==
    Truthy(a.param_col) /\ a.param_value # None /\ a.param_value[1] # 0

\* if param_col and param_value is not None
param_given(a) == Truthy(a.param_col) /\ a.param_value # None

\* the if/elif chain on param_op; no branch is taken for any other operator
param_stage(s, a) ==
    IF s.exc # None \/ ~param_given(a) THEN s
    ELSE IF a.param_op = None \/ a.param_op[1] \notin ParamOps THEN s
    ELSE IF a.param_col[1] \notin s.store[s.ref].columns THEN Raise(s, a.param_col[1])
    ELSE Rebind(s, a.param_col[1],
                BoolIndex(s.store, s.ref,
                          param_mask(Series(s.store[s.ref], a.param_col[1]),
                                     a.param_op[1], a.param_value[1])))

\* ["Name"] if "Name" in filtered_df.columns else []
default_hover(f) == IF "Name" \in f.columns THEN <<"Name">> ELSE << >>

RECURSIVE HoverCompNoDedup(_, _, _)
\* The comprehension without its test col != "Name".
HoverCompNoDedup(f, cols, i) ==
    IF i > Len(cols) THEN << >>
    ELSE IF cols[i] \in f.columns
         THEN <<cols[i]>> \o HoverCompNoDedup(f, cols, i + 1)
         ELSE HoverCompNoDedup(f, cols, i + 1)

RECURSIVE HoverComp(_, _, _)
\* [col for col in cols if col in filtered_df.columns and col != "Name"], from i on
HoverComp(f, cols, i) ==
    IF i > Len(cols) THEN << >>
    ELSE IF cols[i] \in f.columns /\ cols[i] # "Name"
         THEN <<cols[i]>> \o HoverComp(f, cols, i + 1)
         ELSE HoverComp(f, cols, i + 1)

selected_hover(f, a) == HoverComp(f, OrEmpty(a.hover_cols), 1)

hover_list(f, a) == default_hover(f) \o selected_hover(f, a)

\* hover_list if hover_list else False: None stands for False (hover off)
hover_data(f, a) == IF hover_list(f, a) # << >> THEN Some(hover_list(f, a)) ELSE None

\* col if col in filtered_df.columns else None
Resolved(m, f) == IF m # None /\ m[1] \in f.columns THEN m ELSE None

\* the f-string of the title
title(a) ==
    Fmt(a.x_col) \o " vs " \o Fmt(a.y_col) \o " "
    \o (IF Truthy(a.color_col) THEN "| colored by " \o Fmt(a.color_col) \o " |" ELSE "")
    \o (IF Truthy(a.size_col) THEN "| sized by " \o Fmt(a.size_col) \o " |" ELSE "")

\* what a call leaves in "fig": nothing yet
NoFig ==
    [kind |-> "none", data_frame |-> NoTable, x |-> None, y |-> None, color |-> None,
     size |-> None, hover_data |-> None, title |-> "", template |-> "",
     exc |-> None, trace |-> << >>]

\* {"data": [], "layout": {"title": "Select X and Y columns"}}
Placeholder == [NoFig EXCEPT !.kind = "dict", !.title = "Select X and Y columns"]

\* the arguments of px.scatter
scatter(s, a) ==
    [kind       |-> "scatter",
     data_frame |-> s.store[s.ref],
     x          |-> a.x_col,
     y          |-> a.y_col,
     color      |-> Resolved(a.color_col, s.store[s.ref]),
     size       |-> Resolved(a.size_col, s.store[s.ref]),
     hover_data |-> hover_data(s.store[s.ref], a),
     title      |-> title(a),
     template   |-> "plotly_white",
     exc        |-> None,
     trace      |-> s.trace]

\* a call that ends in KeyError
KeyError(s) == [NoFig EXCEPT !.kind = "KeyError", !.exc = s.exc, !.trace = s.trace]

\* The guard written with "and": only both axes missing short-circuit.
missing_axes_both(a) == ~Truthy(a.x_col) /\ ~Truthy(a.y_col)

\* if not x_col or not y_col
missing_axes(a) == ~Truthy(a.x_col) \/ ~Truthy(a.y_col)

\* One call of the callback on the module-level table t: what it returns (or
\* raises) and the object store it leaves, whose object 1 is df.
update_scatter(t, a) ==
    IF missing_axes(a) THEN [fig |-> Placeholder, store |-> <<t>>]
    ELSE LET s == param_stage(player_stage(team_stage(Entry(t), a), a), a)
         IN  [fig |-> IF s.exc # None THEN KeyError(s) ELSE scatter(s, a), store |-> s.store]

(* ----------------------------- start-up -------------------------------- *)

\* The message built from the path as given, not resolved.
not_found_unresolved(path) == "CSV not found: " \o path

\* f"CSV not found: {path.resolve()}"
not_found(path) == "CSV not found: " \o Resolve(path)

\* load_data: raises FileNotFoundError when the path does not exist, else
\* returns the table read from it
load_data(path) ==
    IF ~exists THEN [exc |-> Some(not_found(path)), value |-> NoTable]
    ELSE [exc |-> None, value |-> read_csv(csv)]

\* df.select_dtypes(include=["number"]).columns.tolist(): ERA is the numeric
\* column of the files; read_csv gives a column without any record the
\* dtype object, so a file without records has no numeric column
numeric_cols(t) == IF "ERA" \in t.columns /\ Len(t.rows) > 0 THEN <<"ERA">> ELSE << >>

\* the value= of the ten inputs in the layout: x-col starts on
\* numeric_cols[0], y-col on numeric_cols[1], each None when there is no such
\* column; the multi dropdowns start on [], param-op on ">"
layout_values(t) ==
    [x_col |-> IF Len(numeric_cols(t)) > 0 THEN Some(numeric_cols(t)[1]) ELSE None,
     y_col |-> IF Len(numeric_cols(t)) > 1 THEN Some(numeric_cols(t)[2]) ELSE None,
     color_col |-> None, size_col |-> None,
     selected_teams |-> Some(<< >>), selected_players |-> Some(<< >>),
     hover_cols |-> Some(<< >>), param_col |-> None, param_op |-> Some(">"),
     param_value |-> None]

\* create_app(df): the Dash application with its layout and its callback
create_app(t) ==
    Some([name |-> "Dash", all_cols |-> t.columns, numeric_cols |-> numeric_cols(t),
          layout |-> layout_values(t)])

(* ------------------------------ inputs --------------------------------- *)

\* the longest hover selection the model sends
MaxHover == 3

\* the inputs after the user has put both axis dropdowns on ERA and touched
\* nothing else: the call the input sets below are varied from (it is not the
\* layout's initial state, see layout_values)
BothAxesChosen ==
    [x_col |-> Some("ERA"), y_col |-> Some("ERA"), color_col |-> None, size_col |-> None,
     selected_teams |-> Some(<< >>), selected_players |-> Some(<< >>),
     hover_cols |-> Some(<< >>), param_col |-> None, param_op |-> Some(">"),
     param_value |-> None]

\* the callback arguments while no call is running
NoArgs ==
    [x_col |-> None, y_col |-> None, color_col |-> None, size_col |-> None,
     selected_teams |-> None, selected_players |-> None, hover_cols |-> None,
     param_col |-> None, param_op |-> None, param_value |-> None]

\* parameter triples: every operator of the dropdown, one unknown operator and
\* a cleared operator, against an unset, a zero and a non-zero value
ParamTriples ==
    { [col |-> c, op |-> o, value |-> v] :
        c \in {None, Some("ERA")},
        o \in {None, Some("!=")} \cup {Some(q) : q \in ParamOps},
        v \in {None, Some(0), Some(1)} }
    \cup { [col |-> Some(""), op |-> Some(">"), value |-> Some(0)] }

\* calls that vary the three filters
FilterInputs ==
    { [BothAxesChosen EXCEPT !.selected_teams = t, !.selected_players = p,
                       !.param_col = q.col, !.param_op = q.op, !.param_value = q.value] :
        t \in {Some(<< >>), Some(<<"X">>), Some(<<"Y", "X">>)},
        p \in {Some(<< >>), Some(<<"B">>)},
        q \in ParamTriples }

\* calls that vary the axes, with and without filters and colour
AxisInputs ==
    { [BothAxesChosen EXCEPT !.x_col = x, !.y_col = y, !.selected_teams = t,
                       !.selected_players = p, !.color_col = c,
                       !.param_col = q, !.param_value = Some(0)] :
        x \in {None, Some(""), Some("ERA")},
        y \in {None, Some(""), Some("ERA")},
        t \in {None, Some(<<"X">>)},
        p \in {None, Some(<<"B">>)},
        c \in {None, Some("Team")},
        q \in {None, Some("ERA")} }

\* calls that vary the hover selection
HoverInputs ==
    { [BothAxesChosen EXCEPT !.hover_cols = h] :
        h \in {None} \cup { Some(l) : l \in SeqsUpTo({"Name", "ERA", "WHIP"}, MaxHover) } }

\* calls that vary the colour and size columns
ColorInputs ==
    { [BothAxesChosen EXCEPT !.color_col = c, !.size_col = z] :
        c \in {None, Some(""), Some("Team"), Some("NoSuchColumn")},
        z \in {None, Some(""), Some("ERA"), Some("NoSuchColumn")} }

Inputs == FilterInputs \cup AxisInputs \cup HoverInputs \cup ColorInputs

\* the calls of the runs that compare one evaluation with an earlier one
FewInputs ==
    { [BothAxesChosen EXCEPT !.x_col = x, !.selected_teams = t, !.selected_players = p,
                       !.param_col = q, !.param_value = Some(0)] :
        x \in {None, Some("ERA")},
        t \in {Some(<< >>), Some(<<"X">>)},
        p \in {Some(<< >>), Some(<<"B">>)},
        q \in {None, Some("ERA")} }

NoRef == [set |-> FALSE, args |-> NoArgs, fig |-> NoFig]

(* ------------------------------ actions -------------------------------- *)

Init ==
    /\ exists \in BOOLEAN
    /\ csv \in (IF exists THEN CsvFiles ELSE {NoFile})
    /\ pc = "start"
    /\ loads = 0
    /\ df = NoTable
    /\ app = None
    /\ err = None
    /\ args = NoArgs
    /\ fig = NoFig
    /\ ref = NoRef

\* Import of the module: df = load_data(CSV_PATH); app = create_app(df).  An
\* exception of load_data ends the import, and with it the process.
Startup ==
    /\ pc = "start"
    /\ LET r == load_data(CSV_PATH)
       IN  IF r.exc # None
           THEN /\ pc' = "failed"
                /\ err' = r.exc
                /\ UNCHANGED <<loads, df, app>>
           ELSE /\ pc' = "idle"
                /\ loads' = loads + 1
                /\ df' = r.value
                /\ app' = create_app(r.value)
                /\ err' = None
    /\ UNCHANGED <<exists, csv, args, fig, ref>>

\* Dash calls update_scatter with the current values of the ten inputs; the
\* call runs to its return (or its exception) before another one starts.
Call(a) ==
    /\ pc = "idle"
    /\ LET r == update_scatter(df, a)
       IN  /\ fig' = r.fig
           /\ df' = r.store[1]
    /\ args' = a
    /\ pc' = "returning"
    /\ UNCHANGED <<exists, csv, loads, app, err, ref>>

\* Page load: Dash makes the first call with the values of the layout.
PageLoad ==
    /\ app # None
    /\ Call(app[1].layout)

\* The result goes to the browser; the arguments and locals of the call are gone.
Return ==
    /\ pc = "returning"
    /\ pc' = "idle"
    /\ args' = NoArgs
    /\ fig' = NoFig
    /\ UNCHANGED <<exists, csv, loads, df, app, err, ref>>

\* As Return, with the call and its result kept aside for a later comparison.
ReturnKept ==
    /\ pc = "returning"
    /\ pc' = "idle"
    /\ ref' = [set |-> TRUE, args |-> args, fig |-> fig]
    /\ args' = NoArgs
    /\ fig' = NoFig
    /\ UNCHANGED <<exists, csv, loads, df, app, err>>

Next ==
    \/ Startup
    \/ PageLoad
    \/ \E a \in Inputs : Call(a)
    \/ Return

Spec == Init /\ [][Next]_vars

NextKept ==
    \/ Startup
    \/ PageLoad
    \/ \E a \in FewInputs : Call(a)
    \/ Return
    \/ ReturnKept

SpecKept == Init /\ [][NextKept]_vars

(* ------------------------------ claims --------------------------------- *)

\* a call of update_scatter has just ended
Returning == pc = "returning"

\* the rows of the table as loaded from the file
SourceRows == read_csv(csv).rows

\* the rows handed to px.scatter
KeptRows == fig.data_frame.rows

Elems(q) == { q[i] : i \in 1..Len(q) }

Unset(m) == m = None \/ m = Some("")

NoList(m) == m = None \/ m = Some(<< >>)

\* the row passes the team filter, or the filter is inactive
TeamHolds(row, a) == NoList(a.selected_teams) \/ row.cells["Team"] \in Elems(a.selected_teams[1])

\* the row passes the player filter, or the filter is inactive
PlayerHolds(row, a) ==
    NoList(a.selected_players) \/ row.cells["Name"] \in Elems(a.selected_players[1])

\* the parameter triple is fully specified, with one of the five operators
TripleActive(a) ==
    /\ ~Unset(a.param_col)
    /\ a.param_value # None
    /\ a.param_op \in {Some(">"), Some(">="), Some("<"), Some("<="), Some("=")}

Satisfies(v, op, w) ==
    \/ op = ">" /\ w < v
    \/ op = ">=" /\ w <= v
    \/ op = "<" /\ v < w
    \/ op = "<=" /\ v <= w
    \/ op = "=" /\ v = w

\* the row passes the comparison, or the parameter filter is inactive
ParamHolds(row, a) ==
    ~TripleActive(a) \/ Satisfies(row.cells[a.param_col[1]], a.param_op[1], a.param_value[1])

\* C1: whenever update_scatter hands a table to px.scatter, that table has
\* the columns of the source and exactly the source rows (each once) that pass
\* every active filter: team, player and parameter comparison.
C1_FilteredExactly ==
    (Returning /\ fig.kind = "scatter") =>
        /\ fig.data_frame.columns = csv.columns
        /\ Elems(KeptRows) = { r \in Elems(SourceRows) :
                                 TeamHolds(r, args) /\ PlayerHolds(r, args) /\ ParamHolds(r, args) }
        /\ Cardinality(Elems(KeptRows)) = Len(KeptRows)

\* all three filters are active and together keep some rows and drop others
C1_Witness ==
    /\ Returning /\ fig.kind = "scatter"
    /\ ~NoList(args.selected_teams) /\ ~NoList(args.selected_players) /\ TripleActive(args)
    /\ 0 < Len(KeptRows) /\ Len(KeptRows) < Len(SourceRows)

\* C2: a call with x_col or y_col None or empty returns exactly the
\* placeholder dict, whatever the other arguments, without any column lookup.
C2_ShortCircuit ==
    (Returning /\ (Unset(args.x_col) \/ Unset(args.y_col))) =>
        /\ fig.kind = "dict"
        /\ fig.title = "Select X and Y columns"
        /\ fig.trace = << >>
        /\ fig = Placeholder

\* only y_col is missing, and the team filter names a column the table lacks
C2_Witness ==
    /\ Returning /\ fig.kind = "dict"
    /\ ~Unset(args.x_col) /\ Unset(args.y_col)
    /\ ~NoList(args.selected_teams) /\ "Team" \notin df.columns

\* C3: no call of update_scatter ends in an error: each returns the figure
\* or the placeholder, and a filter column the table lacks is ignored.
C3_NoError == Returning => fig.kind \in {"scatter", "dict"}

\* C4: a color_col (size_col) that is no column of the filtered table gives
\* the plot specification of the same call made without color_col (size_col).
C4_UnresolvedIsUnset ==
    (Returning /\ fig.kind = "scatter") =>
        /\ (args.color_col # None /\ args.color_col[1] \notin fig.data_frame.columns)
              => fig = update_scatter(df, [args EXCEPT !.color_col = None]).fig
        /\ (args.size_col # None /\ args.size_col[1] \notin fig.data_frame.columns)
              => fig = update_scatter(df, [args EXCEPT !.size_col = None]).fig

\* the hover list of the figure ([] when hover is off)
HoverList == IF fig.hover_data = None THEN << >> ELSE fig.hover_data[1]

\* the user's hover selection (None as [])
HoverSelection == IF args.hover_cols = None THEN << >> ELSE args.hover_cols[1]

\* C5: the hover list is "Name" (if a column) followed by the selected
\* columns, in order, that are columns of the table and are not "Name"; so
\* it starts with "Name" when the table has it and holds "Name" at most once.
C5_HoverList ==
    (Returning /\ fig.kind = "scatter") =>
        LET Keep(c) == c \in df.columns /\ c # "Name"
            head == IF "Name" \in df.columns THEN <<"Name">> ELSE << >>
        IN  /\ HoverList = head \o SelectSeq(HoverSelection, Keep)
            /\ "Name" \in df.columns => (HoverList # << >> /\ HoverList[1] = "Name")
            /\ Cardinality({ i \in 1..Len(HoverList) : HoverList[i] = "Name" }) <= 1

\* the selection names "Name" and repeats another column of the table
C5_Witness ==
    /\ Returning /\ fig.kind = "scatter"
    /\ "Name" \in df.columns
    /\ args.hover_cols = Some(<<"ERA", "Name", "ERA">>)
    /\ HoverList = <<"Name", "ERA", "ERA">>

\* C6: once loaded, the module-level table stays the table read from the
\* file, across every call, whichever filters the call applies.
C6_SourceUnchanged == (pc \in {"idle", "returning"}) => df = read_csv(csv)

\* a call applied all three filters and dropped rows that df still has
C6_Witness ==
    /\ Returning /\ fig.kind = "scatter"
    /\ ~NoList(args.selected_teams) /\ ~NoList(args.selected_players) /\ TripleActive(args)
    /\ Len(KeptRows) < Len(df.rows)

\* C7: a call with the arguments of an earlier call returns what that call
\* returned (table, hover list, title), whatever calls came in between.
C7_NoMemory == (Returning /\ ref.set /\ ref.args = args) => fig = ref.fig

\* a filtering call is repeated after an earlier one was kept
C7_Witness ==
    /\ Returning /\ ref.set /\ ref.args = args /\ fig.kind = "scatter"
    /\ ~NoList(args.selected_teams)
    /\ 0 < Len(KeptRows) /\ Len(KeptRows) < Len(df.rows)

ByTeam(rows, a) == LET P(r) == TeamHolds(r, a) IN SelectSeq(rows, P)

ByPlayer(rows, a) == LET P(r) == PlayerHolds(r, a) IN SelectSeq(rows, P)

ByParam(rows, a) == LET P(r) == ParamHolds(r, a) IN SelectSeq(rows, P)

\* C8: the rows update_scatter keeps (team, then player, then parameter)
\* are the rows kept by the same three predicates applied in any other order.
C8_OrderIndependent ==
    (Returning /\ fig.kind = "scatter") =>
        /\ KeptRows = ByParam(ByPlayer(ByTeam(SourceRows, args), args), args)
        /\ KeptRows = ByPlayer(ByParam(ByTeam(SourceRows, args), args), args)
        /\ KeptRows = ByParam(ByTeam(ByPlayer(SourceRows, args), args), args)
        /\ KeptRows = ByTeam(ByParam(ByPlayer(SourceRows, args), args), args)
        /\ KeptRows = ByPlayer(ByTeam(ByParam(SourceRows, args), args), args)
        /\ KeptRows = ByTeam(ByPlayer(ByParam(SourceRows, args), args), args)

\* the team and the player filter are active and each drops a row the other keeps
C8_Witness ==
    /\ Returning /\ fig.kind = "scatter"
    /\ TripleActive(args)
    /\ KeptRows # ByTeam(SourceRows, args)
    /\ KeptRows # ByPlayer(SourceRows, args)
    /\ ByTeam(SourceRows, args) # ByPlayer(SourceRows, args)

\* the team and player filters name columns the table has, or are inactive
FiltersResolve(a) ==
    /\ NoList(a.selected_teams) \/ "Team" \in df.columns
    /\ NoList(a.selected_players) \/ "Name" \in df.columns

\* C9: the parameter filter is applied exactly when param_col and
\* param_value are both given (0 is a value) and the operator is one of the
\* five; with any other operator the call ends without error and keeps the
\* rows it keeps with no parameter filter.
C9_ParamFilter ==
    (Returning /\ ~Unset(args.x_col) /\ ~Unset(args.y_col) /\ FiltersResolve(args)) =>
        /\ (args.param_col = None \/ args.param_value = None) =>
              /\ fig.kind = "scatter"
              /\ KeptRows = ByPlayer(ByTeam(SourceRows, args), args)
              /\ \A i \in 1..Len(fig.trace) : fig.trace[i] \in {"Team", "Name"}
        /\ (~Unset(args.param_col) /\ args.param_value # None /\ ~TripleActive(args)) =>
              /\ fig.kind = "scatter"
              /\ KeptRows = ByPlayer(ByTeam(SourceRows, args), args)
              /\ \A i \in 1..Len(fig.trace) : fig.trace[i] \in {"Team", "Name"}
        /\ (TripleActive(args) /\ args.param_col[1] \in df.columns) =>
              /\ fig.kind = "scatter"
              /\ fig.trace # << >> /\ fig.trace[Len(fig.trace)] = args.param_col[1]
              /\ KeptRows = ByParam(ByPlayer(ByTeam(SourceRows, args), args), args)

\* the comparison "> 0" is applied and drops a row
C9_Witness ==
    /\ Returning /\ fig.kind = "scatter"
    /\ args.param_col = Some("ERA") /\ args.param_op = Some(">") /\ args.param_value = Some(0)
    /\ Len(KeptRows) < Len(ByPlayer(ByTeam(SourceRows, args), args))

\* C10: without the CSV file, start-up ends in the not-found error naming
\* the resolved path, no application exists and no call is ever made; with
\* the file, the table has been loaded exactly once before any call.
C10_Startup ==
    /\ ~exists =>
          /\ pc \in {"start", "failed"}
          /\ app = None /\ loads = 0 /\ fig = NoFig /\ df = NoTable
          /\ pc = "failed" => err = Some("CSV not found: " \o Cwd \o CSV_PATH)
    /\ exists =>
          /\ pc # "failed" /\ err = None
          /\ pc = "start" => (loads = 0 /\ app = None /\ fig = NoFig)
          /\ pc \in {"idle", "returning"} => (loads = 1 /\ app # None)

\* start-up has failed on the missing file
C10_Witness == pc = "failed" /\ ~exists /\ err # None

====
